---- MODULE Spec2Model ----
(***************************************************************************)
(* Model of cloud9-labs/mcp-openai: the MCP server start-up (index.ts),    *)
(* the tool handlers (tools.ts, carried at the end of schemas.ts) and the  *)
(* rate-limited, retrying OpenAIClient (client.ts).                        *)
(*                                                                         *)
(* Time is the value of Date.now() in milliseconds.  One action is one     *)
(* run-to-completion step of the Node event loop: the code between two     *)
(* awaits that really suspend (a timer, the HTTP transport).               *)
(***************************************************************************)
EXTENDS Integers, Sequences, FiniteSets, TLC

VARIABLES
    now,              \* Date.now()
    env,              \* process.env.OPENAI_API_KEY
    server,           \* the process: "init", "serving", "failed"
    regKey,           \* apiKey captured by registerTools' closure
    client,           \* _client of registerTools: Null or the OpenAIClient
    built,            \* number of OpenAIClient instances constructed
    lastRequestTime,  \* OpenAIClient.lastRequestTime
    calls,            \* one record per tool invocation in progress
    issue             \* the most recent outbound attempt (history)

vars == <<now, env, server, regKey, client, built, lastRequestTime, calls,
          issue>>

\* ------------------------------------------------------------ constants

RATE_LIMIT_DELAY == 100

DEFAULT_RETRIES == 3

MS_PER_SECOND == 1000

\* ------------------------------------------------------------ bounds

\* Granularity of the clock.
TICK == 50

\* Milliseconds after the start during which tool invocations arrive and the
\* clock is observed tick by tick; later it moves from timer to timer.
Horizon == 100

\* Date.now() when the process starts: any epoch time far above the delay.
StartTime == 10 * RATE_LIMIT_DELAY

MaxTime == StartTime + Horizon

Calls == {"a", "b"}

\* JavaScript's undefined, where the other values are strings.
Undefined == "undefined"

\* ------------------------------------------------------------ parseInt

Digit == {"0", "1", "2", "3", "4", "5", "6", "7", "8", "9"}

DigitVal(ch) ==
    CASE ch = "0" -> 0 [] ch = "1" -> 1 [] ch = "2" -> 2 [] ch = "3" -> 3
      [] ch = "4" -> 4 [] ch = "5" -> 5 [] ch = "6" -> 6 [] ch = "7" -> 7
      [] ch = "8" -> 8 [] ch = "9" -> 9

\* A number, or NaN when ok is FALSE.
Num(n) == [ok |-> TRUE, val |-> n]

NaN == [ok |-> FALSE, val |-> 0]

RECURSIVE TrimStart(_)
TrimStart(s) ==
    IF s /= <<>> /\ Head(s) = " " THEN TrimStart(Tail(s)) ELSE s

\* The longest prefix of digits of s, as a number; NaN when s starts with none.
RECURSIVE ParseDigits(_, _, _)
ParseDigits(s, acc, seen) ==
    IF s /= <<>> /\ Head(s) \in Digit
    THEN ParseDigits(Tail(s), acc * 10 + DigitVal(Head(s)), TRUE)
    ELSE IF seen THEN Num(acc) ELSE NaN

\* parseInt(h, 10) of a header value: h.present is FALSE for a missing header
\* (parseInt(undefined) is NaN), else h.value is its characters.
parseInt10(h) ==
    IF ~h.present THEN NaN
    ELSE LET t == TrimStart(h.value) IN
         IF t = <<>> THEN NaN
         ELSE IF Head(t) = "-"
              THEN LET d == ParseDigits(Tail(t), 0, FALSE) IN
                   IF d.ok THEN Num(0 - d.val) ELSE NaN
              ELSE IF Head(t) = "+" THEN ParseDigits(Tail(t), 0, FALSE)
              ELSE ParseDigits(t, 0, FALSE)

\* parseInt(header, 10) || 1: NaN and 0 are falsy.
RetryAfter(h) ==
    LET n == parseInt10(h) IN
    IF ~n.ok \/ n.val = 0 THEN 1 ELSE n.val

\* Milliseconds of the backoff timer: setTimeout(resolve, retryAfter * 1000).
BackoffDelay(h) == RetryAfter(h) * MS_PER_SECOND

\* A timer set for ms milliseconds fires no earlier than then, and a
\* non-positive delay no earlier than at once.
TimerDue(t, ms) == IF ms > 0 THEN t + ms ELSE t

\* ------------------------------------------------------------ rateLimit

\* As SpacingWait, with the time already passed added to the interval
\* instead of taken from it.
SpacingWaitAdded(t, last) ==
    IF t - last < RATE_LIMIT_DELAY THEN RATE_LIMIT_DELAY + (t - last) ELSE 0

\* The milliseconds rateLimit waits, 0 when it does not wait.
SpacingWait(t, last) ==
    IF t - last < RATE_LIMIT_DELAY THEN RATE_LIMIT_DELAY - (t - last) ELSE 0

\* ------------------------------------------------------------ start-up

\* !value of a string or undefined.
Falsy(v) == v = Undefined \/ v = ""

\* process.env.OPENAI_API_KEY ??= "sandbox-api-key"
SandboxEnv(e) == IF e = Undefined THEN "sandbox-api-key" ELSE e

\* As CreateServerThrows, testing for undefined alone.
CreateServerThrowsOnUndefined(e) == e = Undefined

\* createServer throws when the environment holds no key.
CreateServerThrows(e) == Falsy(e)

\* const key = apiKey || process.env.OPENAI_API_KEY
ConstructorKey(apiKey, e) == IF Falsy(apiKey) THEN e ELSE apiKey

ConstructorThrows(apiKey, e) == Falsy(ConstructorKey(apiKey, e))

NoClient == [built |-> FALSE, key |-> Undefined]

\* As NeedsClient, with the client constructed anew by every handler.
NeedsClientAlways(cl) == TRUE

\* if (!_client) of getClient.
NeedsClient(cl) == cl = NoClient

NewClient(apiKey, e) == [built |-> TRUE, key |-> ConstructorKey(apiKey, e)]

\* ------------------------------------------------------------ errors

NoHeader == [present |-> FALSE, value |-> <<>>]

Header(chars) == [present |-> TRUE, value |-> chars]

\* retry-after values a 429 response carries.
Headers == {NoHeader, Header(<<"0">>), Header(<<"2">>), Header(<<"x">>)}

NoErr == [kind |-> "none", axios |-> FALSE, status |-> 0, header |-> NoHeader,
          instanceOfError |-> FALSE, message |-> "", attempt |-> 0]

\* An AxiosError for a response with a non-2xx status.
HttpError(st, h, n) ==
    [kind |-> "http", axios |-> TRUE, status |-> st, header |-> h,
     instanceOfError |-> TRUE,
     message |-> IF st = 429 THEN "Request failed with status code 429"
                 ELSE "Request failed with status code 500",
     attempt |-> n]

\* An AxiosError with no response: DNS, TLS, connection reset.
NetworkError(n) ==
    [kind |-> "network", axios |-> TRUE, status |-> 0, header |-> NoHeader,
     instanceOfError |-> TRUE, message |-> "Network Error", attempt |-> n]

\* An Error that is no AxiosError, thrown inside the request closure.
OtherError(n) ==
    [kind |-> "other", axios |-> FALSE, status |-> 0, header |-> NoHeader,
     instanceOfError |-> TRUE, message |-> "invalid argument", attempt |-> n]

ConfigError ==
    [kind |-> "config", axios |-> FALSE, status |-> 0, header |-> NoHeader,
     instanceOfError |-> TRUE,
     message |-> "OPENAI_API_KEY environment variable is required",
     attempt |-> 0]

\* What the n-th invocation of the request closure can throw.
Failures(n) ==
    {HttpError(429, h, n) : h \in Headers}
        \cup {HttpError(500, NoHeader, n), NetworkError(n), OtherError(n)}

\* As ShouldRetry, with the budget test off by one.
ShouldRetryOffByOne(err, retries) ==
    err.axios /\ err.kind = "http" /\ err.status = 429 /\ retries >= 0

\* As ShouldRetry, without the test of the status.
ShouldRetryAnyStatus(err, retries) ==
    err.axios /\ err.kind = "http" /\ retries > 0

\* axios.isAxiosError(error) && error.response?.status === 429 && retries > 0
ShouldRetry(err, retries) ==
    err.axios /\ err.kind = "http" /\ err.status = 429 /\ retries > 0

\* As Propagated, throwing a new error in place of the one caught.
PropagatedWrapped(err) ==
    [err EXCEPT !.kind = "other", !.axios = FALSE, !.message = "Request failed"]

\* The error handleRequest throws for the error it caught: throw error.
Propagated(err) == err

\* ------------------------------------------------------------ tools

Tools == {"openai_chat_completion", "openai_create_embedding",
          "openai_list_models", "openai_get_model", "openai_create_image",
          "openai_create_speech", "openai_create_transcription",
          "openai_moderate_content"}

NoResult == [settled |-> "pending", isError |-> FALSE, text |-> <<>>]

\* { content: [{ type: "text", text: JSON.stringify(result, null, 2) }] }
SuccessResult(data) ==
    [settled |-> "resolved", isError |-> FALSE, text |-> <<"json", data>>]

\* errorResult(error)
errorResult(err) ==
    [settled |-> "resolved", isError |-> TRUE,
     text |-> <<"Error: ", IF err.instanceOfError THEN err.message
                           ELSE "An unknown error occurred">>]

\* As HandlerCatch, letting the error escape the handler.
HandlerRethrow(err) ==
    [settled |-> "rejected", isError |-> TRUE, text |-> <<"", err.message>>]

\* The catch clause of a tool handler.
HandlerCatch(err) == errorResult(err)

\* ------------------------------------------------------------ requests

EmptyBody == [k \in {} |-> Undefined]

\* As Opt, sending null for an argument left out.
OptOrNull(key, value) == key :> (IF value /= Undefined THEN value ELSE "null")

\* if (value !== undefined) body.key = value
Opt(key, value) == IF value /= Undefined THEN key :> value ELSE EmptyBody

NoArgs == [none |-> Undefined]

\* body of chatCompletion's closure
ChatBody(a) ==
    ("model" :> a.model) @@ ("messages" :> a.messages)
        @@ Opt("temperature", a.temperature)
        @@ Opt("max_tokens", a.maxTokens)
        @@ Opt("top_p", a.topP)
        @@ Opt("tools", a.tools)
        @@ Opt("tool_choice", a.toolChoice)

\* body of createEmbedding's closure
EmbeddingBody(a) ==
    ("model" :> a.model) @@ ("input" :> a.input)
        @@ Opt("dimensions", a.dimensions)

\* model: model || "dall-e-3"
ImageModel(model) == IF Falsy(model) THEN "dall-e-3" ELSE model

\* body of createImage's closure
ImageBody(a) ==
    ("prompt" :> a.prompt) @@ ("model" :> ImageModel(a.model))
        @@ Opt("size", a.size)
        @@ Opt("quality", a.quality)
        @@ Opt("n", a.n)

\* body of createSpeech's closure
SpeechBody(a) ==
    ("model" :> a.model) @@ ("input" :> a.input) @@ ("voice" :> a.voice)
        @@ Opt("response_format", a.responseFormat)
        @@ Opt("speed", a.speed)

\* body of createTranscription's closure
TranscriptionBody(a) ==
    ("model" :> a.model) @@ ("file" :> a.fileUrl)
        @@ Opt("language", a.language)
        @@ Opt("response_format", a.responseFormat)

\* body of moderateContent's closure
ModerationBody(a) ==
    ("input" :> a.input) @@ Opt("model", a.model)

NoRequest == [method |-> "", path |-> "", body |-> EmptyBody]

\* The HTTP request the closure of tool t's operation sends for arguments a.
Request(t, a) ==
    CASE t = "openai_chat_completion" ->
            [method |-> "POST", path |-> "/chat/completions",
             body |-> ChatBody(a)]
      [] t = "openai_create_embedding" ->
            [method |-> "POST", path |-> "/embeddings",
             body |-> EmbeddingBody(a)]
      [] t = "openai_list_models" ->
            [method |-> "GET", path |-> "/models", body |-> EmptyBody]
      [] t = "openai_get_model" ->
            [method |-> "GET", path |-> "/models/id", body |-> EmptyBody]
      [] t = "openai_create_image" ->
            [method |-> "POST", path |-> "/images/generations",
             body |-> ImageBody(a)]
      [] t = "openai_create_speech" ->
            [method |-> "POST", path |-> "/audio/speech",
             body |-> SpeechBody(a)]
      [] t = "openai_create_transcription" ->
            [method |-> "POST", path |-> "/audio/transcriptions",
             body |-> TranscriptionBody(a)]
      [] t = "openai_moderate_content" ->
            [method |-> "POST", path |-> "/moderations",
             body |-> ModerationBody(a)]

\* Arguments a tool handler can be invoked with, as the schemas admit them.
ArgsOf(t) ==
    CASE t = "openai_chat_completion" ->
            [model : {"gpt-4"}, messages : {"[...]"},
             temperature : {Undefined, "0", "0.7"},
             maxTokens : {Undefined, "16"},
             topP : {Undefined, "1"},
             tools : {Undefined, "[]"},
             toolChoice : {Undefined, "null", "auto"}]
      [] t = "openai_create_embedding" ->
            [model : {"text-embedding-3-small"}, input : {"text"},
             dimensions : {Undefined, "256"}]
      [] t = "openai_list_models" -> {NoArgs}
      [] t = "openai_get_model" -> [modelId : {"id"}]
      [] t = "openai_create_image" ->
            [prompt : {"a cat"}, model : {Undefined, "", "dall-e-2"},
             size : {Undefined, "1024x1024"}, quality : {Undefined, "hd"},
             n : {Undefined, "1"}]
      [] t = "openai_create_speech" ->
            [model : {"tts-1"}, input : {"text"}, voice : {"alloy"},
             responseFormat : {Undefined, "mp3"}, speed : {Undefined, "1"}]
      [] t = "openai_create_transcription" ->
            [model : {"whisper-1"}, fileUrl : {"https://host/a.mp3"},
             language : {Undefined, "en"},
             responseFormat : {Undefined, "json"}]
      [] t = "openai_moderate_content" ->
            [input : {"text"}, model : {Undefined, "", "omni"}]

\* ------------------------------------------------------------ state

\* response.data of the n-th attempt; attempt 0 is no value.
Data(n) == [attempt |-> n]

IdleCall ==
    [pc |-> "idle",       \* idle, spacing, flight, backoff, done
     via |-> 0,           \* which client getClient() gave (0: none)
     tool |-> "",
     args |-> NoArgs,
     retries |-> 0,       \* the retries parameter of the current handleRequest
     attempts |-> 0,      \* invocations of the request closure so far
     backoffs |-> 0,      \* 429 waits so far
     n429 |-> 0,          \* attempts answered with HTTP 429 so far
     rlRuns |-> 0,        \* completed executions of rateLimit
     wake |-> 0,          \* when the pending timer is due
     setAt |-> 0,         \* when the pending timer was set
     base |-> 0,          \* lastRequestTime as the running rateLimit read it
     sent |-> NoRequest,  \* the request of the last attempt
     lastErr |-> NoErr,   \* the error the last attempt threw, if it has
     levels |-> <<>>,     \* the handleRequest invocations of this call
     raised |-> NoErr,    \* the error handleRequest threw to its caller
     returned |-> Data(0),\* the value handleRequest returned
     result |-> NoResult] \* what the tool handler's promise settled with

\* History of the attempts issued: how many (2 stands for 2 or more), when the
\* latest was issued, its distance from the one before (RATE_LIMIT_DELAY
\* stands for that or more), whether the lastRequestTime its rateLimit
\* read was the issue time of the one before, and whether it was issued in
\* its turn.
NoIssue == [n |-> 0, at |-> 0, gap |-> 0, based |-> TRUE, ordered |-> TRUE]

\* The time from which rateLimit lets the call of rec go on: the deadline of
\* its spacing timer, or the present when it sets none.
Permitted(rec) == IF rec.pc = "spacing" THEN rec.wake ELSE now

\* The time at which the call of rec came to the spacing.
Started(rec) == IF rec.pc = "spacing" THEN rec.setAt ELSE now

\* The call of rec goes on in its turn: no other call waits at the spacing
\* that was let go on earlier, or at the same time having come earlier.
InTurn(c, rec) ==
    \A d \in Calls \ {c} :
        calls[d].pc = "spacing" =>
            /\ calls[d].wake >= Permitted(rec)
            /\ calls[d].wake = Permitted(rec) => calls[d].setAt >= Started(rec)

Init ==
    /\ now = StartTime
    /\ env \in {Undefined, "", "sk-key"}
    /\ server = "init"
    /\ regKey = Undefined
    /\ client = NoClient
    /\ built = 0
    /\ lastRequestTime = 0
    /\ calls = [c \in Calls |-> IdleCall]
    /\ issue = NoIssue

\* ------------------------------------------------------------ index.ts

\* createServer() with the environment e, then the transport is connected.
CreateServer(e) ==
    IF CreateServerThrows(e)
    THEN /\ server' = "failed"
         /\ UNCHANGED regKey
    ELSE /\ server' = "serving"
         /\ regKey' = e

\* main(): createServer, connect; a throw ends the process with exit(1).
Main ==
    /\ server = "init"
    /\ CreateServer(env)
    /\ UNCHANGED <<now, env, client, built, lastRequestTime, calls, issue>>

\* createSandboxServer(): default the environment's key, then createServer.
CreateSandboxServer ==
    /\ server = "init"
    /\ env' = SandboxEnv(env)
    /\ CreateServer(env')
    /\ UNCHANGED <<now, client, built, lastRequestTime, calls, issue>>

\* ------------------------------------------------------------ client.ts

\* The end of rateLimit, this.lastRequestTime = Date.now(), and then
\* handleRequest invokes the request closure, which sends the HTTP request.
Issue(c, rec) ==
    /\ lastRequestTime' = now
    /\ calls' = [calls EXCEPT ![c] =
                    [rec EXCEPT !.pc = "flight",
                                !.rlRuns = @ + 1,
                                !.attempts = @ + 1,
                                !.wake = 0, !.setAt = 0, !.base = 0,
                                !.lastErr = NoErr,
                                !.sent = Request(rec.tool, rec.args)]]
    /\ issue' = [n |-> IF issue.n < 2 THEN issue.n + 1 ELSE 2,
                 at |-> now,
                 gap |-> IF issue.n = 0 THEN 0
                         ELSE IF now - issue.at < RATE_LIMIT_DELAY
                              THEN now - issue.at ELSE RATE_LIMIT_DELAY,
                 based |-> issue.n = 0 \/ rec.base = issue.at,
                 ordered |-> InTurn(c, rec)]

\* handleRequest(request, r) up to its first suspension: rateLimit reads the
\* clock and lastRequestTime, and either sets the spacing timer or goes on.
HandleRequest(c, rec, r) ==
    LET entered == [rec EXCEPT
                      !.retries = r,
                      !.base = lastRequestTime,
                      !.levels = Append(@, [retries |-> r,
                                            before |-> rec.attempts])]
    IN  IF now - lastRequestTime < RATE_LIMIT_DELAY
        THEN /\ calls' = [calls EXCEPT ![c] =
                            [entered EXCEPT
                               !.pc = "spacing",
                               !.setAt = now,
                               !.wake = TimerDue(now,
                                            SpacingWait(now, lastRequestTime))]]
             /\ UNCHANGED <<lastRequestTime, issue>>
        ELSE Issue(c, entered)

\* A tool handler runs for tool t with arguments a: getClient(), then the
\* capability operation, which enters handleRequest with the default budget.
Invoke(c, t, a) ==
    /\ server = "serving"
    /\ now <= MaxTime
    /\ calls[c].pc \in {"idle", "done"}
    /\ IF NeedsClient(client) /\ ConstructorThrows(regKey, env)
       THEN /\ calls' = [calls EXCEPT ![c] =
                           [IdleCall EXCEPT !.pc = "done", !.tool = t,
                                            !.args = a,
                                            !.result = HandlerCatch(ConfigError)]]
            /\ UNCHANGED <<client, built, lastRequestTime, issue>>
       ELSE /\ IF NeedsClient(client)
               THEN /\ client' = NewClient(regKey, env)
                    /\ built' = built + 1
               ELSE UNCHANGED <<client, built>>
            /\ HandleRequest(c, [IdleCall EXCEPT !.tool = t, !.args = a,
                                                 !.via = built'],
                             DEFAULT_RETRIES)
    /\ UNCHANGED <<now, env, server, regKey>>

\* The spacing timer of rateLimit fires.
SpacingFire(c) ==
    /\ calls[c].pc = "spacing"
    /\ now >= calls[c].wake
    /\ Issue(c, calls[c])
    /\ UNCHANGED <<now, env, server, regKey, client, built>>

\* As Succeed, with the value of a retried attempt lost on the way up the
\* recursion (handleRequest(request, retries - 1) called but not returned).
SucceedDropsRetried(c) ==
    /\ calls[c].pc = "flight"
    /\ calls' = [calls EXCEPT ![c] =
                    [@ EXCEPT !.pc = "done",
                              !.returned = IF calls[c].attempts > 1 THEN Data(0)
                                           ELSE Data(calls[c].attempts),
                              !.result = SuccessResult("data")]]
    /\ UNCHANGED <<now, env, server, regKey, client, built, lastRequestTime,
                   issue>>

\* As Succeed, with the time of the response written to lastRequestTime.
SucceedStamps(c) ==
    /\ calls[c].pc = "flight"
    /\ calls' = [calls EXCEPT ![c] =
                    [@ EXCEPT !.pc = "done",
                              !.returned = Data(calls[c].attempts),
                              !.result = SuccessResult("data")]]
    /\ lastRequestTime' = now
    /\ UNCHANGED <<now, env, server, regKey, client, built, issue>>

\* The request closure returns: handleRequest returns its value and the
\* handler renders it.
Succeed(c) ==
    /\ calls[c].pc = "flight"
    /\ calls' = [calls EXCEPT ![c] =
                    [@ EXCEPT !.pc = "done",
                              !.returned = Data(calls[c].attempts),
                              !.result = SuccessResult("data")]]
    /\ UNCHANGED <<now, env, server, regKey, client, built, lastRequestTime,
                   issue>>

\* As Fail, with the budget kept in one place for all calls: a retried 429
\* takes one retry from every call in progress.
FailSharedBudget(c, err) ==
    /\ calls[c].pc = "flight"
    /\ LET rec == [calls[c] EXCEPT
                     !.lastErr = err,
                     !.n429 = IF err.kind = "http" /\ err.status = 429
                              THEN @ + 1 ELSE @] IN
       calls' = [d \in Calls |->
                   IF d = c
                   THEN IF ShouldRetry(err, rec.retries)
                        THEN [rec EXCEPT !.pc = "backoff",
                                         !.backoffs = @ + 1,
                                         !.setAt = now,
                                         !.wake = TimerDue(now,
                                                     BackoffDelay(err.header))]
                        ELSE [rec EXCEPT !.pc = "done",
                                         !.raised = Propagated(err),
                                         !.result = HandlerCatch(Propagated(err))]
                   ELSE IF ShouldRetry(err, rec.retries)
                             /\ calls[d].pc \in {"spacing", "flight", "backoff"}
                             /\ calls[d].retries > 0
                        THEN [calls[d] EXCEPT !.retries = @ - 1]
                        ELSE calls[d]]
    /\ UNCHANGED <<now, env, server, regKey, client, built, lastRequestTime,
                   issue>>

\* The request closure throws err: the catch clause of handleRequest.
Fail(c, err) ==
    /\ calls[c].pc = "flight"
    /\ LET rec == [calls[c] EXCEPT
                     !.lastErr = err,
                     !.n429 = IF err.kind = "http" /\ err.status = 429
                              THEN @ + 1 ELSE @] IN
       calls' = [calls EXCEPT ![c] =
                   IF ShouldRetry(err, rec.retries)
                   THEN [rec EXCEPT !.pc = "backoff",
                                    !.backoffs = @ + 1,
                                    !.setAt = now,
                                    !.wake = TimerDue(now,
                                                BackoffDelay(err.header))]
                   ELSE [rec EXCEPT !.pc = "done",
                                    !.raised = Propagated(err),
                                    !.result = HandlerCatch(Propagated(err))]]
    /\ UNCHANGED <<now, env, server, regKey, client, built, lastRequestTime,
                   issue>>

\* As BackoffFire, invoking the request closure again without rateLimit.
BackoffFireUnpaced(c) ==
    /\ calls[c].pc = "backoff"
    /\ now >= calls[c].wake
    /\ calls' = [calls EXCEPT ![c] =
                    [@ EXCEPT !.pc = "flight", !.retries = @ - 1,
                              !.attempts = @ + 1, !.wake = 0, !.setAt = 0]]
    /\ UNCHANGED <<now, env, server, regKey, client, built, lastRequestTime,
                   issue>>

\* As BackoffFire, with the budget passed on undiminished.
BackoffFireSameBudget(c) ==
    /\ calls[c].pc = "backoff"
    /\ now >= calls[c].wake
    /\ HandleRequest(c, [calls[c] EXCEPT !.wake = 0, !.setAt = 0],
                     calls[c].retries)
    /\ UNCHANGED <<now, env, server, regKey, client, built>>

\* The backoff timer fires: return this.handleRequest(request, retries - 1).
BackoffFire(c) ==
    /\ calls[c].pc = "backoff"
    /\ now >= calls[c].wake
    /\ HandleRequest(c, [calls[c] EXCEPT !.wake = 0, !.setAt = 0],
                     calls[c].retries - 1)
    /\ UNCHANGED <<now, env, server, regKey, client, built>>

\* ------------------------------------------------------------ the clock

\* Time passes while the process serves.
Tick ==
    /\ server = "serving"
    /\ now + TICK <= MaxTime
    /\ now' = now + TICK
    /\ UNCHANGED <<env, server, regKey, client, built, lastRequestTime, calls,
                   issue>>

\* The deadlines of the timers still to come.
Pending ==
    {calls[c].wake : c \in {d \in Calls : /\ calls[d].pc \in {"spacing", "backoff"}
                                          /\ calls[d].wake > now}}

Earliest(S) == CHOOSE x \in S : \A y \in S : x <= y

\* The event loop sleeps until the next timer is due.
Sleep ==
    /\ Pending /= {}
    /\ now' = Earliest(Pending)
    /\ UNCHANGED <<env, server, regKey, client, built, lastRequestTime, calls,
                   issue>>

\* ------------------------------------------------------------ specifications

\* The dispatcher under concurrent invocations of one tool.
Next ==
    \/ Main
    \/ CreateSandboxServer
    \/ \E c \in Calls : Invoke(c, "openai_list_models", NoArgs)
    \/ \E c \in Calls : SpacingFire(c)
    \/ \E c \in Calls : Succeed(c)
    \/ \E c \in Calls : \E err \in Failures(calls[c].attempts) : Fail(c, err)
    \/ \E c \in Calls : BackoffFire(c)
    \/ Tick
    \/ Sleep

Spec == Init /\ [][Next]_vars

\* Every tool with every shape of arguments, one invocation at a time.
NextTools ==
    \/ Main
    \/ CreateSandboxServer
    \/ \E t \in Tools : \E a \in ArgsOf(t) : Invoke("a", t, a)
    \/ SpacingFire("a")
    \/ Succeed("a")
    \/ \E err \in Failures(calls["a"].attempts) : Fail("a", err)
    \/ BackoffFire("a")
    \/ Tick
    \/ Sleep

SpecTools == Init /\ [][NextTools]_vars

\* The arguments of tool t that leave out every optional one.
RequiredArgs(t) ==
    {a \in ArgsOf(t) :
        \A f \in DOMAIN a :
            a[f] = Undefined \/ \A b \in ArgsOf(t) : b[f] = a[f]}

\* What the n-th invocation of the request closure throws there: a throttled
\* request or a failed one.
ServerFailures(n) == {HttpError(429, NoHeader, n), HttpError(500, NoHeader, n)}

\* Concurrent invocations of every tool of one registered server.
NextServer ==
    \/ Main
    \/ CreateSandboxServer
    \/ \E c \in Calls : \E t \in Tools : \E a \in RequiredArgs(t) : Invoke(c, t, a)
    \/ \E c \in Calls : SpacingFire(c)
    \/ \E c \in Calls : Succeed(c)
    \/ \E c \in Calls : \E err \in ServerFailures(calls[c].attempts) : Fail(c, err)
    \/ \E c \in Calls : BackoffFire(c)
    \/ Tick
    \/ Sleep

SpecServer == Init /\ [][NextServer]_vars

\* The transport call of c returns or fails.
Respond(c) ==
    \/ Succeed(c)
    \/ \E err \in ServerFailures(calls[c].attempts) : Fail(c, err)

\* Concurrent invocations of one tool, as far as termination goes.
NextLive ==
    \/ Main
    \/ CreateSandboxServer
    \/ \E c \in Calls : Invoke(c, "openai_list_models", NoArgs)
    \/ \E c \in Calls : SpacingFire(c)
    \/ \E c \in Calls : Respond(c)
    \/ \E c \in Calls : BackoffFire(c)
    \/ Tick
    \/ Sleep

\* The event loop runs the callback of a timer that is due and sleeps until
\* the next one when there is nothing else to do; every transport call
\* returns or fails in the end.
Fairness ==
    /\ \A c \in Calls : WF_vars(SpacingFire(c))
    /\ \A c \in Calls : WF_vars(BackoffFire(c))
    /\ \A c \in Calls : WF_vars(Respond(c))
    /\ WF_vars(Sleep)

SpecLive == Init /\ [][NextLive]_vars /\ Fairness

\* ------------------------------------------------------------ claims

Is429(err) == err.kind = "http" /\ err.status = 429

Failed(rec) == rec.pc = "done" /\ rec.lastErr /= NoErr

\* C1: any two consecutive outbound attempts of one client are issued at
\* least RATE_LIMIT_DELAY apart, measured when the request closure is invoked.
C1_SpacingInvariant == issue.n >= 2 => issue.gap >= RATE_LIMIT_DELAY

\* C2: every issued attempt but the first computed its wait from the issue
\* time of the attempt issued immediately before it.
C2_SerializedTimestamp == issue.n >= 2 => issue.based

\* C3: when every attempt is answered with 429, each handleRequest invocation
\* with budget R performs exactly R + 1 attempts (never more while the call
\* runs) and then throws the 429 error.
C3_RetryBound ==
    \A c \in Calls :
        LET rec == calls[c] IN
        rec.n429 = rec.attempts =>
            \A i \in DOMAIN rec.levels :
                LET made == rec.attempts - rec.levels[i].before
                    R == rec.levels[i].retries
                IN  /\ made <= R + 1
                    /\ rec.pc = "done" =>
                          /\ made = R + 1
                          /\ Is429(rec.raised)

\* C3 witness: a call of the default budget ended after 4 attempts, all 429,
\* the last of them made by the invocation with budget 0.
C3_Witness ==
    \E c \in Calls :
        /\ calls[c].pc = "done"
        /\ calls[c].n429 = DEFAULT_RETRIES + 1
        /\ calls[c].attempts = DEFAULT_RETRIES + 1
        /\ calls[c].levels[1].retries = DEFAULT_RETRIES
        /\ calls[c].retries = 0
        /\ Is429(calls[c].raised)

\* The wait C4 states for header h; a negative number of seconds is left to
\* the code.
C4_StatedWait(h) ==
    LET n == parseInt10(h) IN
    IF ~n.ok THEN MS_PER_SECOND
    ELSE IF n.val >= 0 THEN n.val * MS_PER_SECOND
    ELSE BackoffDelay(h)

\* C4: the backoff after a retryable 429 is the retry-after header as a
\* number of seconds for every header that parses as an integer n >= 0, and
\* 1 second when the header is absent or does not parse.
C4_BackoffHonoring ==
    \A c \in Calls :
        calls[c].pc = "backoff" =>
            calls[c].wake - calls[c].setAt
                = C4_StatedWait(calls[c].lastErr.header)

\* C5: an attempt that fails with anything but a 429 ends its handleRequest
\* invocation at once: that invocation made one attempt, no backoff follows
\* the failure, and the error is thrown, whatever the budget.
C5_NonRetryablePassthrough ==
    \A c \in Calls :
        LET rec == calls[c] IN
        (rec.lastErr /= NoErr /\ ~Is429(rec.lastErr)) =>
            /\ rec.pc = "done"
            /\ rec.raised = rec.lastErr
            /\ rec.attempts - rec.levels[Len(rec.levels)].before = 1
            /\ rec.backoffs = rec.n429
            /\ rec.backoffs = rec.attempts - 1

\* C5 witness: an HTTP 500 ended a call at its first attempt with the whole
\* budget left, and a network error ended another with budget 0.
C5_Witness ==
    \E c, d \in Calls :
        /\ Failed(calls[c]) /\ Failed(calls[d])
        /\ calls[c].lastErr.status = 500
        /\ calls[c].retries = DEFAULT_RETRIES /\ calls[c].attempts = 1
        /\ calls[d].lastErr.kind = "network"
        /\ calls[d].retries = 0 /\ calls[d].attempts = DEFAULT_RETRIES + 1

\* C6: the error a failed call raises is the very error its last attempt
\* threw, and a call whose last attempt threw raises one.
C6_ErrorsUnchanged ==
    \A c \in Calls :
        LET rec == calls[c] IN
        /\ Failed(rec) => /\ rec.raised = rec.lastErr
                          /\ rec.raised.attempt = rec.attempts
        /\ rec.raised /= NoErr => Failed(rec)

\* C6 witness: a final 429 after two retried ones, and a first-attempt error
\* that is no AxiosError, both raised.
C6_Witness ==
    \E c, d \in Calls :
        /\ Failed(calls[c]) /\ Is429(calls[c].raised)
        /\ calls[c].raised.attempt = DEFAULT_RETRIES + 1
        /\ Failed(calls[d]) /\ calls[d].raised.kind = "other"
        /\ calls[d].raised.attempt = 1

\* The optional arguments of the six operations that build a body, each with
\* the body key it is sent under.
OptionalArgs(t) ==
    CASE t = "openai_chat_completion" ->
            {<<"temperature", "temperature">>, <<"maxTokens", "max_tokens">>,
             <<"topP", "top_p">>, <<"tools", "tools">>,
             <<"toolChoice", "tool_choice">>}
      [] t = "openai_create_embedding" -> {<<"dimensions", "dimensions">>}
      [] t = "openai_create_image" ->
            {<<"model", "model">>, <<"size", "size">>,
             <<"quality", "quality">>, <<"n", "n">>}
      [] t = "openai_create_speech" ->
            {<<"responseFormat", "response_format">>, <<"speed", "speed">>}
      [] t = "openai_create_transcription" ->
            {<<"language", "language">>,
             <<"responseFormat", "response_format">>}
      [] t = "openai_moderate_content" -> {<<"model", "model">>}
      [] OTHER -> {}

\* The key is in the body exactly when the argument was supplied, and then
\* with the argument's value.
SentVerbatim(rec, p) ==
    /\ p[2] \in DOMAIN rec.sent.body <=> rec.args[p[1]] /= Undefined
    /\ rec.args[p[1]] /= Undefined => rec.sent.body[p[2]] = rec.args[p[1]]

\* C7 as stated: for every operation and every optional argument, the key is
\* in the outgoing body if and only if the caller supplied a defined value,
\* and then carries it verbatim.
C7_OptionalOmission ==
    \A c \in Calls :
        calls[c].attempts > 0 =>
            \A p \in OptionalArgs(calls[c].tool) : SentVerbatim(calls[c], p)

\* C7 amended: the same for every optional argument but the model of
\* createImage, which is always sent: the caller's value when that is a
\* non-empty string, "dall-e-3" otherwise.
C7_OptionalOmissionAmended ==
    \A c \in Calls :
        LET rec == calls[c] IN
        rec.attempts > 0 =>
            /\ \A p \in OptionalArgs(rec.tool) :
                  ~(rec.tool = "openai_create_image" /\ p[1] = "model")
                      => SentVerbatim(rec, p)
            /\ rec.tool = "openai_create_image" =>
                  /\ "model" \in DOMAIN rec.sent.body
                  /\ rec.sent.body["model"] =
                        IF rec.args.model \in {Undefined, ""}
                        THEN "dall-e-3" ELSE rec.args.model

\* C7 witness: a chat completion sent without temperature and tools but with
\* max_tokens and a null tool_choice.
C7_Witness ==
    /\ calls["a"].pc = "flight"
    /\ calls["a"].tool = "openai_chat_completion"
    /\ calls["a"].args.temperature = Undefined
    /\ calls["a"].args.maxTokens = "16"
    /\ calls["a"].args.toolChoice = "null"
    /\ DOMAIN calls["a"].sent.body
          = {"model", "messages", "max_tokens", "tool_choice"}

\* C8: without a credential the start-up fails, and only a process that had
\* a credential serves, runs a tool handler, constructs a client or issues a
\* request.
C8_MissingCredentialFatal ==
    /\ server = "failed" => Falsy(env)
    /\ server = "serving" => ~Falsy(env) /\ regKey = env
    /\ server /= "serving" =>
          /\ \A c \in Calls : calls[c] = IdleCall
          /\ issue = NoIssue /\ built = 0 /\ client = NoClient
    /\ client /= NoClient => ~Falsy(client.key)
    /\ \A c \in Calls :
          calls[c].result /= errorResult(ConfigError)

\* C8 witness: the process failed at start-up for want of a key.
C8_Witness == server = "failed" /\ Falsy(env) /\ regKey = Undefined

\* C9: a tool handler that has ended has resolved, never rejected; when its
\* call failed the result is the error's message as text with isError set.
C9_BoundaryConversion ==
    \A c \in Calls :
        LET rec == calls[c] IN
        /\ rec.result.settled /= "rejected"
        /\ rec.pc = "done" <=> rec.result.settled = "resolved"
        /\ Failed(rec) =>
              /\ rec.result.isError
              /\ rec.result.text = <<"Error: ", rec.lastErr.message>>
        /\ (rec.pc = "done" /\ ~Failed(rec)) =>
              (rec.result.isError <=> rec.attempts = 0)

\* C9 witness: the handler of the image tool resolved with an error result
\* after its call failed with a network error.
C9_Witness ==
    /\ Failed(calls["a"])
    /\ calls["a"].tool = "openai_create_image"
    /\ calls["a"].lastErr.kind = "network"
    /\ calls["a"].result = [settled |-> "resolved", isError |-> TRUE,
                            text |-> <<"Error: ", "Network Error">>]

\* The request closure of call c is invoked in this step.
Issues(c) == calls[c].pc /= "flight" /\ calls'[c].pc = "flight"

\* Part of C10 that one step shows: the step that invokes the request closure
\* of a call writes the current time to lastRequestTime and completes one
\* more rateLimit of that call.
C10_PacedStep ==
    \A c \in Calls :
        Issues(c) =>
            /\ lastRequestTime' = now'
            /\ calls'[c].rlRuns = calls'[c].attempts

\* Part of C10 that one state shows: a call has completed as many rateLimit
\* executions as it has made attempts, and until the first attempt of the
\* client is issued lastRequestTime is 0 and no call waits for the spacing.
C10_PacedState ==
    /\ \A c \in Calls : calls[c].rlRuns = calls[c].attempts
    /\ issue.n = 0 =>
          /\ lastRequestTime = 0
          /\ \A c \in Calls : calls[c].pc /= "spacing"

\* C10: every invocation of the request closure, a retry's too, comes with
\* one execution of rateLimit of the same call that sets lastRequestTime to
\* the current time; lastRequestTime starts at 0, and the first call of a
\* fresh client is issued without waiting.
C10_SpacingBeforeEveryAttempt == []C10_PacedState /\ [][C10_PacedStep]_vars

\* C10 witness: a retry is in flight, issued just now by its call's fourth
\* rateLimit.
C10_Witness ==
    \E c \in Calls :
        /\ calls[c].pc = "flight"
        /\ calls[c].attempts = DEFAULT_RETRIES + 1
        /\ calls[c].rlRuns = DEFAULT_RETRIES + 1
        /\ lastRequestTime = now

\* The last attempt of a finished call returned.
Returned(rec) == rec.pc = "done" /\ rec.attempts > 0 /\ rec.lastErr = NoErr

\* Part of C11 that one state shows: a call whose first k attempts got 429
\* and whose next attempt returned has made k + 1 attempts and k backoff
\* waits, k within the budget, and returned that attempt's value.
C11_ReturnedState ==
    \A c \in Calls :
        LET rec == calls[c] IN
        Returned(rec) =>
            /\ rec.attempts = rec.n429 + 1
            /\ rec.backoffs = rec.n429
            /\ rec.n429 <= rec.levels[1].retries
            /\ rec.returned = Data(rec.attempts)
            /\ rec.raised = NoErr
            /\ rec.result = SuccessResult("data")

\* Part of C11 that one step shows: a call that has returned makes no further
\* attempt; its record changes only when a new tool invocation takes it over.
C11_ReturnedStep ==
    \A c \in Calls :
        Returned(calls[c]) =>
            \/ calls'[c] = calls[c]
            \/ /\ Len(calls'[c].levels) = 1
               /\ calls'[c].backoffs = 0
               /\ calls'[c].n429 = 0
               /\ calls'[c].attempts <= 1

\* C11: if the first k attempts of a call get 429 (0 <= k <= R) and attempt
\* k + 1 succeeds, the call returns exactly that attempt's result after
\* exactly k + 1 attempts and k backoff waits, and issues no attempt after.
C11_RetryThenSuccess == []C11_ReturnedState /\ [][C11_ReturnedStep]_vars

\* C11 witness: one call returned the value of its fourth attempt after three
\* 429s, another the value of its first.
C11_Witness ==
    \E c, d \in Calls :
        /\ Returned(calls[c]) /\ calls[c].n429 = DEFAULT_RETRIES
        /\ calls[c].returned = Data(DEFAULT_RETRIES + 1)
        /\ calls[c].backoffs = DEFAULT_RETRIES
        /\ Returned(calls[d]) /\ calls[d].n429 = 0
        /\ calls[d].returned = Data(1)

\* Part of C12 that one state shows: the budget a call has left is the
\* default less its own retries, and a call that ended with every attempt
\* answered 429 has had all its R + 1 attempts.
C12_OwnBudgetState ==
    \A c \in Calls :
        LET rec == calls[c] IN
        rec.levels /= <<>> =>
            /\ rec.retries = DEFAULT_RETRIES - (Len(rec.levels) - 1)
            /\ Len(rec.levels) - 1 <= rec.n429
            /\ rec.attempts <= DEFAULT_RETRIES + 1
            /\ (rec.pc = "done" /\ rec.n429 = rec.attempts)
                  => rec.attempts = DEFAULT_RETRIES + 1

\* Part of C12 that one step shows: a step in which one call gets a 429 or
\* retries leaves the budget and the counts of every other call as they were.
C12_OwnBudgetStep ==
    \A c, d \in Calls :
        (c /= d /\ (calls'[c].n429 /= calls[c].n429
                      \/ calls'[c].retries /= calls[c].retries)) =>
            calls'[d] = calls[d]

\* C12: the retry budget is per call: the 429s one call receives never
\* reduce the attempts available to another call in flight on the same
\* client; each call gets up to R + 1 attempts of its own.
C12_BudgetPerCall == []C12_OwnBudgetState /\ [][C12_OwnBudgetStep]_vars

\* C12 witness: two calls in progress together, one with its budget used up
\* by four 429s, the other still with its whole budget at its first attempt.
C12_Witness ==
    \E c, d \in Calls :
        /\ calls[c].pc = "done" /\ calls[c].n429 = DEFAULT_RETRIES + 1
        /\ calls[d].pc = "flight" /\ calls[d].attempts = 1
        /\ calls[d].retries = DEFAULT_RETRIES
        /\ Len(calls[d].levels) = 1
        /\ calls[d].sent /= NoRequest

\* A call suspended on a timer still to come.
Suspended(rec) == rec.pc \in {"spacing", "backoff"} /\ rec.wake > now

\* C13: a wait blocks only its own call path: whatever the other calls are
\* doing, a spacing wait is set for at most one interval from the moment
\* rateLimit is entered and ends one interval after the timestamp it read,
\* a timer that is due can fire, a response can be handled, and a new
\* invocation can begin.
C13_WaitBlocksOwnPathOnly ==
    \A c \in Calls :
        LET rec == calls[c] IN
        /\ rec.pc = "spacing" =>
              /\ rec.wake - rec.setAt > 0
              /\ rec.wake - rec.setAt <= RATE_LIMIT_DELAY
              /\ rec.wake = rec.base + RATE_LIMIT_DELAY
              /\ now >= rec.wake => ENABLED SpacingFire(c)
        /\ (rec.pc = "backoff" /\ now >= rec.wake) => ENABLED BackoffFire(c)
        /\ rec.pc = "flight" => ENABLED Succeed(c)
        /\ (rec.pc \in {"idle", "done"} /\ server = "serving" /\ now <= MaxTime)
              => ENABLED Invoke(c, "openai_list_models", NoArgs)

\* C13 witness: one call is in a 429 backoff still to run for most of a
\* second, and the other call, which entered rateLimit after that backoff
\* began, waits less than one interval and is due first.
C13_Witness ==
    \E c, d \in Calls :
        /\ calls[c].pc = "backoff" /\ Suspended(calls[c])
        /\ calls[d].pc = "spacing" /\ Suspended(calls[d])
        /\ calls[d].setAt > calls[c].setAt
        /\ calls[d].wake - calls[d].setAt < RATE_LIMIT_DELAY
        /\ calls[d].wake < calls[c].wake

\* C14: outbound requests are issued in increasing order of the time
\* at which each call was permitted to proceed, and calls permitted at the
\* same time in the order in which they started waiting: no request is
\* issued while another call waits that was permitted earlier, or at the
\* same time after starting to wait earlier.
C14_ChokepointOrder == issue.ordered

\* Part of C15 that one state shows: at most one client has been
\* constructed, it holds the key the tools were registered with, and every
\* handler that got as far as its capability operation was given that client.
C15_OneClientState ==
    /\ built <= 1
    /\ client = NoClient <=> built = 0
    /\ client /= NoClient => client.key = regKey
    /\ \A c \in Calls :
          /\ calls[c].levels /= <<>> => calls[c].via = 1 /\ built = 1
          /\ calls[c].via \in {0, 1}
          /\ calls[c].via = 0 => calls[c].attempts = 0

\* Part of C15 that one step shows: a call of any tool that starts a spacing
\* wait computes it from the time the latest attempt of any call was issued,
\* and an attempt issued by any call is written to the one lastRequestTime.
C15_SharedTimestampStep ==
    \A c \in Calls :
        /\ (calls'[c].pc = "spacing" /\ calls[c].pc /= "spacing")
              => calls'[c].base = issue.at /\ issue.n > 0
        /\ calls'[c].attempts = calls[c].attempts + 1
              => lastRequestTime' = now /\ issue'.at = now

\* C15: one dispatcher per server: after any sequence of tool invocations,
\* concurrent and failing ones included, at most one OpenAIClient has been
\* constructed for the registered server, and every tool call of every
\* capability goes through it and so shares the same lastRequestTime.
C15_OneDispatcher == []C15_OneClientState /\ [][C15_SharedTimestampStep]_vars

\* C15 witness: a call of one tool has failed, and a concurrent call of
\* another tool waits for the spacing counted from the failed call's
\* attempt, both through the one client constructed.
C15_Witness ==
    \E c, d \in Calls :
        /\ built = 1
        /\ calls[c].tool = "openai_chat_completion"
        /\ calls[c].pc = "done" /\ calls[c].result.isError
        /\ calls[c].via = 1
        /\ calls[d].tool = "openai_create_image"
        /\ calls[d].pc = "spacing" /\ calls[d].via = 1
        /\ calls[d].base = issue.at
        /\ lastRequestTime = issue.at

\* A logical call of c is in progress.
Active(c) == calls[c].pc \in {"spacing", "flight", "backoff"}

\* Part of C16 that one state shows: each handleRequest invocation of a call,
\* with budget R, has made at most R + 1 attempts and at most R backoff
\* waits, and the budget is never negative.
C16_BoundedState ==
    \A c \in Calls :
        LET rec == calls[c] IN
        /\ rec.retries >= 0
        /\ \A i \in DOMAIN rec.levels :
              LET R == rec.levels[i].retries IN
              /\ rec.attempts - rec.levels[i].before <= R + 1
              /\ rec.backoffs - (i - 1) <= R

\* Part of C16 that one step shows: a retry enters handleRequest with a
\* budget strictly below the one before.
C16_DecreaseStep ==
    \A c \in Calls :
        (Len(calls[c].levels) >= 1
            /\ Len(calls'[c].levels) = Len(calls[c].levels) + 1)
          => /\ calls'[c].retries < calls[c].retries
             /\ calls'[c].retries = calls'[c].levels[Len(calls'[c].levels)].retries

\* C16: provided every transport call eventually returns or fails, every
\* logical call eventually returns or raises, after at most R + 1 attempts
\* and R backoff waits for a budget of R; the budget strictly decreases on
\* each retry, and no call waits or retries forever, whatever the other
\* calls do.
C16_Termination ==
    /\ \A c \in Calls : Active(c) ~> calls[c].pc = "done"
    /\ []C16_BoundedState
    /\ [][C16_DecreaseStep]_vars

\* C16 witness: a call has ended by raising after its 4 attempts and 3
\* backoff waits while the other call, begun before that, has ended by
\* returning after a retry.
C16_Witness ==
    \E c, d \in Calls :
        /\ calls[c].pc = "done" /\ Is429(calls[c].raised)
        /\ calls[c].attempts = DEFAULT_RETRIES + 1
        /\ calls[c].backoffs = DEFAULT_RETRIES
        /\ calls[d].pc = "done" /\ calls[d].raised = NoErr
        /\ calls[d].attempts = 2 /\ calls[d].backoffs = 1
        /\ calls[d].returned = Data(2)

\* Part of C17 that one state shows: lastRequestTime is 0 while no attempt
\* has been issued, and the issue time of the latest attempt afterwards.
C17_LatestIssueState ==
    /\ issue.n = 0 => lastRequestTime = 0
    /\ issue.n > 0 => lastRequestTime = issue.at /\ lastRequestTime > 0
    /\ lastRequestTime <= now

\* Part of C17 that one step shows: lastRequestTime never decreases, changes
\* only in a step that issues an attempt, and is left as it was by the step
\* that handles the outcome of an attempt.
C17_WriteStep ==
    /\ lastRequestTime' >= lastRequestTime
    /\ lastRequestTime' /= lastRequestTime =>
          \E c \in Calls : Issues(c) /\ lastRequestTime' = now
    /\ \A c \in Calls :
          (calls[c].pc = "flight" /\ calls'[c].pc \in {"done", "backoff"})
             => lastRequestTime' = lastRequestTime

\* C17: lastRequestTime is written only by rateLimit: handling the outcome
\* of an attempt (success, 429 backoff, error propagated) leaves it as it
\* was; in every reachable state it is 0 (no attempt issued yet) or the
\* issue time of the latest attempt, and it never decreases.
C17_WrittenByRateLimitOnly == []C17_LatestIssueState /\ [][C17_WriteStep]_vars

\* C17 witness: time has passed since the latest attempt was issued; since
\* then its call has begun a 429 backoff, and the other call, entering
\* rateLimit after that, has read that attempt's issue time.
C17_Witness ==
    \E c, d \in Calls :
        /\ lastRequestTime = issue.at /\ lastRequestTime > 0
        /\ lastRequestTime < now
        /\ calls[d].pc = "backoff" /\ calls[d].setAt > lastRequestTime
        /\ calls[c].pc = "spacing" /\ calls[c].setAt >= calls[d].setAt
        /\ calls[c].base = lastRequestTime

====
